---- MODULE Spec2Model ----
(***************************************************************************)
(* The risk scoring engine of the SecurityAnalyzer component               *)
(* (src/src/components/SecurityAnalyzer.tsx, the current version of the    *)
(* component, lines 232-707): fetchRealDomainData, calculateDomainReputation, *)
(* performSecurityChecks, validateUrl and analyzeWebsite, with the React   *)
(* state (url, isAnalyzing, analysisProgress, analysisResult) they drive.  *)
(*                                                                         *)
(* Strings are TLA+ strings; Len, SubSeq and \o work on them as they do on *)
(* sequences.  An optional value (T | null) is a sequence of length at     *)
(* most one: <<>> is null, <<v>> is the value v.                           *)
(* Time is counted in seconds instead of milliseconds (the model checker's *)
(* integers are 32 bits wide and 30 days of milliseconds do not fit):      *)
(* the divisor 1000 * 60 * 60 * 24 of the source is 60 * 60 * 24 here.     *)
(***************************************************************************)
EXTENDS Integers, Sequences, FiniteSets, TLC

VARIABLES
    url,              \* useState(""): the text of the URL input
    isAnalyzing,      \* useState(false)
    analysisProgress, \* useState(0)
    analysisResult,   \* useState(null): <<>> or <<report>>
    toasts,           \* titles of the toasts of the latest analyzeWebsite call
    pc,               \* where the async analyzeWebsite call stands
    normalizedUrl,    \* local of analyzeWebsite
    realDomainData,   \* local of performSecurityChecks: <<>> or <<data>>
    securityResult,   \* local of analyzeWebsite: <<>> or <<result>>
    runs,             \* number of accepted runs so far (bounds the model)
    lookupOutcome,    \* what the lookup of the latest run did (history)
    requests,         \* what the latest accepted run sent to remote services
    probe,            \* arguments of a function applied on its own
    probeOut          \* <<>> or <<its result>>

vars == <<url, isAnalyzing, analysisProgress, analysisResult, toasts, pc,
          normalizedUrl, realDomainData, securityResult, runs, lookupOutcome,
          requests, probe, probeOut>>

uiVars == <<url, isAnalyzing, analysisProgress, analysisResult, toasts, pc,
            normalizedUrl, realDomainData, securityResult, runs, lookupOutcome,
            requests>>

Null == <<>>

Some(v) == <<v>>

\* Longest certificate-lookup answer fetchRealDomainData is applied to on
\* its own.
MaxRecords == 2

\* Longest certificate-lookup answer a run of the component is given: the
\* run keeps the signal of the latest record only, so that longer answers
\* lead it to no other state.
MaxRunRecords == 1

\* Number of accepted analysis runs the model follows.
MaxRuns == 2

(***************************************************************************)
(* String helpers: the JavaScript string methods the component uses.       *)
(***************************************************************************)
Char(s, i) == SubSeq(s, i, i)

startsWith(s, p) == Len(s) >= Len(p) /\ SubSeq(s, 1, Len(p)) = p

\* s from its first character that is no space on
trimStart(s) ==
    LET kept == {i \in 1..Len(s) : Char(s, i) # " "}
    IN  IF kept = {} THEN ""
        ELSE SubSeq(s, CHOOSE i \in kept : \A j \in kept : i <= j, Len(s))

\* s up to its last character that is no space
trimEnd(s) ==
    LET kept == {i \in 1..Len(s) : Char(s, i) # " "}
    IN  IF kept = {} THEN ""
        ELSE SubSeq(s, 1, CHOOSE i \in kept : \A j \in kept : j <= i)

trim(s) == trimEnd(trimStart(s))

UpperCase == {"A", "B", "C", "D", "E", "F", "G", "H", "I", "J", "K", "L", "M",
              "N", "O", "P", "Q", "R", "S", "T", "U", "V", "W", "X", "Y", "Z"}

LowerOf(c) ==
    CASE c = "A" -> "a" [] c = "B" -> "b" [] c = "C" -> "c" [] c = "D" -> "d"
      [] c = "E" -> "e" [] c = "F" -> "f" [] c = "G" -> "g" [] c = "H" -> "h"
      [] c = "I" -> "i" [] c = "J" -> "j" [] c = "K" -> "k" [] c = "L" -> "l"
      [] c = "M" -> "m" [] c = "N" -> "n" [] c = "O" -> "o" [] c = "P" -> "p"
      [] c = "Q" -> "q" [] c = "R" -> "r" [] c = "S" -> "s" [] c = "T" -> "t"
      [] c = "U" -> "u" [] c = "V" -> "v" [] c = "W" -> "w" [] c = "X" -> "x"
      [] c = "Y" -> "y" [] c = "Z" -> "z" [] OTHER -> c

\* The characters of s from position i on, each in lower case
RECURSIVE toLowerCaseFrom(_, _)
toLowerCaseFrom(s, i) ==
    IF i > Len(s) THEN ""
    ELSE LowerOf(Char(s, i)) \o toLowerCaseFrom(s, i + 1)

toLowerCase(s) == toLowerCaseFrom(s, 1)

Digit == {"0", "1", "2", "3", "4", "5", "6", "7", "8", "9"}

\* (s.match(/c/g) || []).length for a one-character pattern
CountIn(s, chars) == Cardinality({i \in 1..Len(s) : Char(s, i) \in chars})

\* s.split('.').pop(): what follows the last dot, all of s when it has none
LastLabel(s) ==
    LET dots == {i \in 1..Len(s) : Char(s, i) = "."}
        last == IF dots = {} THEN 0 ELSE CHOOSE i \in dots : \A j \in dots : j <= i
    IN  SubSeq(s, last + 1, Len(s))

Min(a, b) == IF a <= b THEN a ELSE b

\* The quotient rounded down instead of up.
Ceil_Floor(a, b) == a \div b

\* Math.ceil(a / b) for b > 0
Ceil(a, b) == -((-a) \div b)

(***************************************************************************)
(* new URL(u), for the strings analyzeWebsite hands it: every one starts   *)
(* with http:// or https:// (lines 508-511).  The host runs to the first   *)
(* "/"; parsing fails on an empty host or a character no host may hold;    *)
(* hostname is the host in lower case.  The inputs of the model are        *)
(* chosen among the URLs this reading parses as the platform's parser does *)
(* (no port, credentials, query, or all-numeric last label).               *)
(***************************************************************************)
HostChar == {"a", "b", "c", "d", "e", "f", "g", "h", "i", "j", "k", "l", "m",
             "n", "o", "p", "q", "r", "s", "t", "u", "v", "w", "x", "y", "z",
             "-", "."} \cup Digit

ParseURL(u) ==
    LET rest == IF startsWith(u, "https://") THEN SubSeq(u, 9, Len(u))
                ELSE IF startsWith(u, "http://") THEN SubSeq(u, 8, Len(u))
                ELSE ""
        slashes == {i \in 1..Len(rest) : Char(rest, i) = "/"}
        stop == IF slashes = {} THEN Len(rest) + 1
                ELSE CHOOSE i \in slashes : \A j \in slashes : i <= j
        parsed(host) == [ok |-> /\ Len(host) > 0
                                /\ \A i \in 1..Len(host) : Char(host, i) \in HostChar,
                         hostname |-> host]
    IN  CHOOSE result \in {parsed(host) : host \in {toLowerCase(SubSeq(rest, 1, stop - 1))}} :
            TRUE

\* A validation that lets every string through.
validateUrl_AcceptsAll(u) == TRUE

validateUrl(u) == ParseURL(u).ok

(***************************************************************************)
(* The certificate lookup (crt.sh) as the component sees it.               *)
(***************************************************************************)
\* encodeURIComponent: letters, digits and - _ . ! ~ * ' ( ) stay as they
\* are; of the other characters the strings of the model hold the space,
\* the slash and the colon.
PercentEncoded(c) ==
    CASE c = " " -> "%20"
      [] c = "/" -> "%2F"
      [] c = ":" -> "%3A"
      [] c \in HostChar \cup UpperCase -> c

\* The characters of s from position i on, each encoded
RECURSIVE encodeURIComponentFrom(_, _)
encodeURIComponentFrom(s, i) ==
    IF i > Len(s) THEN ""
    ELSE PercentEncoded(Char(s, i)) \o encodeURIComponentFrom(s, i + 1)

encodeURIComponent(s) == encodeURIComponentFrom(s, 1)

\* The URL of the GET request of line 253
lookupRequest(hostname) ==
    "https://crt.sh/?q=" \o encodeURIComponent(hostname) \o "&output=json"

\* 1000 * 60 * 60 * 24 milliseconds, in seconds
DAY == 60 * 60 * 24

\* Date.now() of the run
Now0 == 20000 * DAY

NowValues == {Now0}

\* An issuer_name that is a JSON object with a property toString that is no
\* function, such as {"toString": 1}: a truthy value that no template
\* literal can turn into a string (the conversion raises a TypeError).
NoPrimitive == "{toString: 1}"

\* One element of the JSON array: null, or an object with not_after (<<>>
\* when new Date(not_after) is an Invalid Date), issuer_name ("" when
\* missing or empty) and the name the certificate was issued for, of which
\* namesHost tells whether it is the hostname of the query, exactly or by
\* wildcard (the component reads the first two only).
NullEntry == [isNull |-> TRUE, not_after |-> Null, issuer_name |-> "", namesHost |-> FALSE]

Entry(t, issuer) ==
    [isNull |-> FALSE, not_after |-> t, issuer_name |-> issuer, namesHost |-> TRUE]

\* An entry for another name: a subdomain or a lookalike of the hostname.
OtherNameEntry(t, issuer) ==
    [isNull |-> FALSE, not_after |-> t, issuer_name |-> issuer, namesHost |-> FALSE]

CertEntries ==
    { NullEntry,
      Entry(Null, "CA-A"),
      Entry(Some(Now0 - (DAY \div 2)), ""),
      Entry(Some(Now0), "CA-A"),
      Entry(Some(Now0 + (DAY \div 2)), "CA-A"),
      Entry(Some(Now0 + 30 * DAY), "CA-A"),
      Entry(Some(Now0 + 30 * DAY), "CA-B"),
      Entry(Some(Now0 + 30 * DAY + 1), "CA-B"),
      Entry(Some(Now0 + 40 * DAY), NoPrimitive),
      OtherNameEntry(Some(Now0 - DAY), "CA-L"),
      OtherNameEntry(Some(Now0 + 90 * DAY), "CA-L") }

CertListsUpTo(max) == UNION {[1..n -> CertEntries] : n \in 0..max}

CertLists == CertListsUpTo(MaxRecords)

\* What fetch(...) and ctResponse.json() can do: reject, fail to parse, or
\* yield JSON that is an array of entries or something else.
Lookups ==
    { [kind |-> "reject", isArray |-> FALSE, items |-> <<>>],
      [kind |-> "badjson", isArray |-> FALSE, items |-> <<>>],
      [kind |-> "json", isArray |-> FALSE, items |-> <<>>] }
    \cup {[kind |-> "json", isArray |-> TRUE, items |-> l] : l \in CertLists}

\* The answers a run of the component is given.
RunLookups ==
    {lookup \in Lookups : lookup.kind # "json" \/ ~lookup.isArray}
    \cup {[kind |-> "json", isArray |-> TRUE, items |-> l] :
            l \in CertListsUpTo(MaxRunRecords)}

\* What a lookup amounts to, read off the answer alone: "failed" when the
\* fetch rejects, the body is no JSON or the array holds a null element;
\* "norecord" when the JSON is no array or holds no entry with a well-formed
\* not_after; "record" otherwise.
LookupClass(lookup) ==
    IF lookup.kind # "json" THEN "failed"
    ELSE IF ~lookup.isArray THEN "norecord"
    ELSE IF \E i \in 1..Len(lookup.items) : lookup.items[i].isNull THEN "failed"
    ELSE IF \A i \in 1..Len(lookup.items) : lookup.items[i].not_after = Null
         THEN "norecord"
    ELSE "record"

(***************************************************************************)
(* fetchRealDomainData                                                     *)
(***************************************************************************)
\* Date.prototype.toLocaleDateString: the calendar day of the instant
toLocaleDateString(t) == "D" \o ToString(t \div DAY)

\* Date.prototype.toLocaleString: the day and the time of day
toLocaleString(t) == "D" \o ToString(t \div DAY) \o " " \o ToString(t % DAY)

MapCert(cert) ==
    [notAfter |-> cert.not_after,
     issuer |-> IF cert.issuer_name = "" THEN "Unknown CA" ELSE cert.issuer_name]

IsValidDate(c) == c.notAfter # Null

\* Array.prototype.sort with (a, b) => b.notAfter - a.notAfter: stable,
\* descending.
RECURSIVE InsertDesc(_, _)
InsertDesc(sorted, c) ==
    IF sorted = <<>> THEN <<c>>
    ELSE IF Head(sorted).notAfter[1] >= c.notAfter[1]
         THEN <<Head(sorted)>> \o InsertDesc(Tail(sorted), c)
         ELSE <<c>> \o sorted

\* The sort left out: the records stay in the order of the answer.
SortDesc_Unsorted(s) == s

RECURSIVE SortDesc(_)
SortDesc(s) ==
    IF s = <<>> THEN s
    ELSE InsertDesc(SortDesc(SubSeq(s, 1, Len(s) - 1)), s[Len(s)])

validDatesOf(items) ==
    SortDesc(SelectSeq([i \in 1..Len(items) |-> MapCert(items[i])], IsValidDate))

daysUntilExpiryOf(notAfter, now) == Ceil(notAfter - now, DAY)

\* sslInfo after lines 256-279
SslFromCt(ctData, now) ==
    IF ctData.isArray /\ Len(ctData.items) > 0
    THEN LET validDates == validDatesOf(ctData.items)
         IN  IF Len(validDates) > 0
             THEN LET latest == validDates[1]
                      daysUntilExpiry == daysUntilExpiryOf(latest.notAfter[1], now)
                  IN  Some([valid |-> daysUntilExpiry > 0,
                            expiry |-> toLocaleDateString(latest.notAfter[1]),
                            daysUntilExpiry |-> Some(daysUntilExpiry),
                            issuer |-> latest.issuer])
             ELSE Null
    ELSE Null

FallbackSsl ==
    [valid |-> TRUE, expiry |-> "Unknown", daysUntilExpiry |-> Null, issuer |-> "Unknown"]

\* The fallback left out.
WithFallback_Never(sslInfo, isHttps) == sslInfo

\* The fallback applied whatever the scheme.
WithFallback_AnyScheme(sslInfo, isHttps) ==
    IF sslInfo = Null THEN Some(FallbackSsl) ELSE sslInfo

\* sslInfo after the fallback of lines 281-289
WithFallback(sslInfo, isHttps) ==
    IF sslInfo = Null /\ isHttps THEN Some(FallbackSsl) ELSE sslInfo

\* Domain age estimation, lines 291-306
estimateDomainAge(hostname) ==
    LET tld == toLowerCase(LastLabel(hostname))
    IN  IF hostname \in {"google.com", "facebook.com", "youtube.com",
                         "amazon.com", "wikipedia.org"}
        THEN 20
        ELSE IF tld \in {"com", "org", "net"} THEN 5 ELSE 2

\* The score without the override for the allow-listed domains.
reputationScore_NoOverride(hostname, domainAge) ==
    50
    + (IF domainAge # Null /\ domainAge[1] # 0
       THEN IF domainAge[1] >= 5 THEN 20 ELSE IF domainAge[1] >= 2 THEN 10 ELSE -10
       ELSE 0)
    + (IF toLowerCase(LastLabel(hostname)) \in {"com", "org", "edu", "gov"} THEN 10 ELSE 0)
    + (IF toLowerCase(LastLabel(hostname)) \in {"tk", "ml", "ga", "cf"} THEN -20 ELSE 0)
    + (IF Len(hostname) > 20 THEN -5 ELSE 0)
    + (IF CountIn(hostname, {"-"}) > 2 THEN -10 ELSE 0)

\* calculateDomainReputation: the score before it is turned into a label.
\* domainAge is <<>> (null) or <<years>>; if (domainAge) is false for null
\* and for 0.
reputationScore(hostname, domainAge) ==
    LET base == 50
        age == IF domainAge # Null /\ domainAge[1] # 0
               THEN IF domainAge[1] >= 5 THEN 20
                    ELSE IF domainAge[1] >= 2 THEN 10 ELSE -10
               ELSE 0
        tld == toLowerCase(LastLabel(hostname))
        good == IF tld \in {"com", "org", "edu", "gov"} THEN 10 ELSE 0
        bad == IF tld \in {"tk", "ml", "ga", "cf"} THEN -20 ELSE 0
        long == IF Len(hostname) > 20 THEN -5 ELSE 0
        hyphenCount == CountIn(hostname, {"-"})
        hyphens == IF hyphenCount > 2 THEN -10 ELSE 0
        score == base + age + good + bad + long + hyphens
    IN  IF hostname \in {"google.com", "facebook.com", "youtube.com", "amazon.com"}
        THEN 95
        ELSE score

\* The thresholds with their edges exclusive.
reputationLabel_Strict(score) ==
    IF score > 80 THEN "Excellent"
    ELSE IF score > 60 THEN "Good"
    ELSE IF score > 40 THEN "Fair"
    ELSE "Poor"

reputationLabel(score) ==
    IF score >= 80 THEN "Excellent"
    ELSE IF score >= 60 THEN "Good"
    ELSE IF score >= 40 THEN "Fair"
    ELSE "Poor"

calculateDomainReputation(hostname, domainAge) ==
    reputationLabel(reputationScore(hostname, domainAge))

\* The lookup throws inside the try block: fetch rejects, json() rejects,
\* or cert.not_after is read off a null element of the array.
LookupThrows(lookup) ==
    \/ lookup.kind \in {"reject", "badjson"}
    \/ /\ lookup.isArray
       /\ \E i \in 1..Len(lookup.items) : lookup.items[i].isNull

\* The catch path returning no certificate signal whatever the scheme.
fetchRealDomainData_CatchDropsSsl(hostname, isHttps, lookup, now) ==
    IF LookupThrows(lookup)
    THEN [ssl |-> Null,
          domainAge |-> "Unknown",
          registrar |-> "Unknown",
          reputation |-> "Unknown",
          lastScanned |-> toLocaleString(now)]
    ELSE LET sslInfo == WithFallback(SslFromCt(lookup, now), isHttps)
             domainAgeYears == estimateDomainAge(hostname)
         IN  [ssl |-> sslInfo,
              domainAge |-> IF domainAgeYears # 0
                            THEN ToString(domainAgeYears) \o " years"
                            ELSE "Unknown",
              registrar |-> IF sslInfo # Null THEN sslInfo[1].issuer
                            ELSE "Verified Registry",
              reputation |-> calculateDomainReputation(hostname, Some(domainAgeYears)),
              lastScanned |-> toLocaleString(now)]

fetchRealDomainData(hostname, isHttps, lookup, now) ==
    IF LookupThrows(lookup)
    THEN [ssl |-> IF isHttps THEN Some(FallbackSsl) ELSE Null,
          domainAge |-> "Unknown",
          registrar |-> "Unknown",
          reputation |-> "Unknown",
          lastScanned |-> toLocaleString(now)]
    ELSE LET sslInfo == WithFallback(SslFromCt(lookup, now), isHttps)
             domainAgeYears == estimateDomainAge(hostname)
         IN  [ssl |-> sslInfo,
              domainAge |-> IF domainAgeYears # 0
                            THEN ToString(domainAgeYears) \o " years"
                            ELSE "Unknown",
              registrar |-> IF sslInfo # Null THEN sslInfo[1].issuer
                            ELSE "Verified Registry",
              reputation |-> calculateDomainReputation(hostname, Some(domainAgeYears)),
              lastScanned |-> toLocaleString(now)]

(***************************************************************************)
(* performSecurityChecks                                                   *)
(***************************************************************************)
Finding(type, status, message) == [type |-> type, status |-> status, message |-> message]

\* The expiring-soon branch without its validity test.
certificateCheck_SoonIgnoresValid(ssl) ==
    IF ssl # Null
    THEN LET days == ssl[1].daysUntilExpiry
         IN  IF ssl[1].valid /\ days # Null /\ days[1] > 30
             THEN [finding |-> Finding("SSL Certificate", "secure",
                                       "Valid SSL certificate (expires " \o ssl[1].expiry
                                       \o ", issued by " \o ssl[1].issuer \o ")"),
                   risk |-> 0]
             ELSE IF days # Null /\ days[1] > 0 /\ days[1] <= 30
             THEN [finding |-> Finding("SSL Certificate", "warning",
                                       "SSL certificate expires soon ("
                                       \o ToString(days[1]) \o " days)"),
                   risk |-> 20]
             ELSE IF ssl[1].valid /\ days = Null
             THEN [finding |-> Finding("SSL Certificate", "secure",
                                       "SSL certificate detected (expiry unknown)"),
                   risk |-> 0]
             ELSE [finding |-> Finding("SSL Certificate", "danger",
                                       "SSL certificate is expired or invalid"),
                   risk |-> 40]
    ELSE [finding |-> Finding("SSL Certificate", "warning",
                              "Could not verify SSL certificate"),
          risk |-> 15]

\* SSL Certificate Check, lines 369-406: the finding and what it adds
certificateCheck(ssl) ==
    IF ssl # Null
    THEN LET days == ssl[1].daysUntilExpiry
         IN  IF ssl[1].valid /\ days # Null /\ days[1] > 30
             THEN [finding |-> Finding("SSL Certificate", "secure",
                                       "Valid SSL certificate (expires " \o ssl[1].expiry
                                       \o ", issued by " \o ssl[1].issuer \o ")"),
                   risk |-> 0]
             ELSE IF ssl[1].valid /\ days # Null /\ days[1] > 0 /\ days[1] <= 30
             THEN [finding |-> Finding("SSL Certificate", "warning",
                                       "SSL certificate expires soon ("
                                       \o ToString(days[1]) \o " days)"),
                   risk |-> 20]
             ELSE IF ssl[1].valid /\ days = Null
             THEN [finding |-> Finding("SSL Certificate", "secure",
                                       "SSL certificate detected (expiry unknown)"),
                   risk |-> 0]
             ELSE [finding |-> Finding("SSL Certificate", "danger",
                                       "SSL certificate is expired or invalid"),
                   risk |-> 40]
    ELSE [finding |-> Finding("SSL Certificate", "warning",
                              "Could not verify SSL certificate"),
          risk |-> 15]

\* The template literal of line 376 raises a TypeError: the first branch is
\* taken and the issuer has no string form.
certificateCheckThrows(ssl) ==
    /\ ssl # Null
    /\ ssl[1].valid
    /\ ssl[1].daysUntilExpiry # Null
    /\ ssl[1].daysUntilExpiry[1] > 30
    /\ ssl[1].issuer = NoPrimitive

\* The scheme test cut short to "http": plain http passes as secure.
protocolCheck_AnyHttp(u) ==
    IF startsWith(u, "http")
    THEN [finding |-> Finding("HTTPS Protocol", "secure", "Secure HTTPS connection"),
          risk |-> 0]
    ELSE [finding |-> Finding("HTTPS Protocol", "danger",
                              "Insecure HTTP connection - data transmitted in plain text"),
          risk |-> 30]

\* Protocol Check, lines 408-422
protocolCheck(u) ==
    IF startsWith(u, "https://")
    THEN [finding |-> Finding("HTTPS Protocol", "secure", "Secure HTTPS connection"),
          risk |-> 0]
    ELSE [finding |-> Finding("HTTPS Protocol", "danger",
                              "Insecure HTTP connection - data transmitted in plain text"),
          risk |-> 30]

\* Good scored as Fair is: only Excellent passes as secure.
reputationCheck_GoodWarns(data) ==
    IF data.reputation = "Excellent"
    THEN [finding |-> Finding("Domain Reputation", "secure",
                              "Excellent domain reputation (Age: " \o data.domainAge \o ")"),
          risk |-> 0]
    ELSE IF data.reputation \in {"Good", "Fair"}
    THEN [finding |-> Finding("Domain Reputation", "warning",
                              "Fair domain reputation - proceed with caution"),
          risk |-> 15]
    ELSE [finding |-> Finding("Domain Reputation", "danger",
                              "Poor domain reputation - high risk"),
          risk |-> 35]

\* Domain Reputation Check, lines 424-451
reputationCheck(data) ==
    IF data.reputation = "Excellent"
    THEN [finding |-> Finding("Domain Reputation", "secure",
                              "Excellent domain reputation (Age: " \o data.domainAge \o ")"),
          risk |-> 0]
    ELSE IF data.reputation = "Good"
    THEN [finding |-> Finding("Domain Reputation", "secure",
                              "Good domain reputation (Age: " \o data.domainAge \o ")"),
          risk |-> 0]
    ELSE IF data.reputation = "Fair"
    THEN [finding |-> Finding("Domain Reputation", "warning",
                              "Fair domain reputation - proceed with caution"),
          risk |-> 15]
    ELSE [finding |-> Finding("Domain Reputation", "danger",
                              "Poor domain reputation - high risk"),
          risk |-> 35]

\* n digits of s from position from on
DigitRun(s, from, n) ==
    /\ from + n - 1 <= Len(s)
    /\ \A i \in from..(from + n - 1) : Char(s, i) \in Digit

DotAt(s, i) == i <= Len(s) /\ Char(s, i) = "."

\* /[0-9]{1,3}\.[0-9]{1,3}\.[0-9]{1,3}\.[0-9]{1,3}/.test(s): the pattern has
\* no anchors, so it matches anywhere in s
matchesIpPattern(s) ==
    \E i \in 1..Len(s) : \E a, b, c, d \in 1..3 :
        /\ DigitRun(s, i, a)
        /\ DotAt(s, i + a)
        /\ DigitRun(s, i + a + 1, b)
        /\ DotAt(s, i + a + b + 1)
        /\ DigitRun(s, i + a + b + 2, c)
        /\ DotAt(s, i + a + b + c + 2)
        /\ DigitRun(s, i + a + b + c + 3, d)

\* The three rules made exclusive: only the first that fires counts.
urlRiskOf_FirstRuleOnly(hostname) ==
    IF matchesIpPattern(hostname) THEN 20
    ELSE IF CountIn(hostname, {"-"}) > 3 THEN 10
    ELSE IF CountIn(hostname, Digit) > 3 THEN 10
    ELSE 0

\* The digit rule left out.
urlRiskOf_NoDigitRule(hostname) ==
    LET ip == IF matchesIpPattern(hostname) THEN 20 ELSE 0
        hyphenCount == CountIn(hostname, {"-"})
        hyphens == IF hyphenCount > 3 THEN 10 ELSE 0
    IN  ip + hyphens

\* urlRisk, lines 460-465
urlRiskOf(hostname) ==
    LET ip == IF matchesIpPattern(hostname) THEN 20 ELSE 0
        hyphenCount == CountIn(hostname, {"-"})
        hyphens == IF hyphenCount > 3 THEN 10 ELSE 0
        numberCount == CountIn(hostname, Digit)
        numbers == IF numberCount > 3 THEN 10 ELSE 0
    IN  ip + hyphens + numbers

\* URL Structure Analysis, lines 453-480
urlStructureCheck(hostname) ==
    LET urlRisk == urlRiskOf(hostname)
    IN  IF urlRisk > 0
        THEN [finding |-> Finding("URL Structure",
                                  IF urlRisk > 15 THEN "danger" ELSE "warning",
                                  "URL structure contains suspicious patterns"),
              risk |-> urlRisk]
        ELSE [finding |-> Finding("URL Structure", "secure",
                                  "URL structure appears normal"),
              risk |-> 0]

\* The clamp left out.
clampRisk_Unclamped(totalRisk) == totalRisk

\* Math.min(totalRisk, 100), line 484
clampRisk(totalRisk) == Min(totalRisk, 100)

\* The URL-structure check pushing no finding on its else branch.
performSecurityChecks_NoSecureStructure(u, data) ==
    LET hostname == ParseURL(u).hostname
        cert == certificateCheck(data.ssl)
        protocol == protocolCheck(u)
        reputation == reputationCheck(data)
        structure == urlStructureCheck(hostname)
        totalRisk == cert.risk + protocol.risk + reputation.risk + structure.risk
    IN  [vulnerabilities |-> <<cert.finding, protocol.finding, reputation.finding>>
                             \o (IF structure.risk > 0 THEN <<structure.finding>>
                                  ELSE <<>>),
         totalRisk |-> clampRisk(totalRisk),
         domainData |-> data]

\* performSecurityChecks rejects instead of returning: nothing but the
\* template literal of line 376 can throw once fetchRealDomainData has returned.
performSecurityChecksThrows(u, data) == certificateCheckThrows(data.ssl)

\* What performSecurityChecks returns once fetchRealDomainData has returned
\* data, when it returns
performSecurityChecks(u, data) ==
    LET checks(hostname) ==
            LET cert == certificateCheck(data.ssl)
                protocol == protocolCheck(u)
                reputation == reputationCheck(data)
                structure == urlStructureCheck(hostname)
                totalRisk == cert.risk + protocol.risk + reputation.risk + structure.risk
            IN  [vulnerabilities |-> <<cert.finding, protocol.finding,
                                       reputation.finding, structure.finding>>,
                 totalRisk |-> clampRisk(totalRisk),
                 domainData |-> data]
    \* the hostname is parsed once, line 453
    IN  CHOOSE result \in {checks(hostname) : hostname \in {ParseURL(u).hostname}} : TRUE

(***************************************************************************)
(* analyzeWebsite                                                          *)
(***************************************************************************)
\* The plain scheme prepended instead of the secure one.
normalizeUrl_PrependsHttp(text) ==
    LET t == trim(text)
    IN  IF ~startsWith(t, "http://") /\ ~startsWith(t, "https://")
        THEN "http://" \o t
        ELSE t

\* lines 508-511
normalizeUrl(text) ==
    LET t == trim(text)
    IN  IF ~startsWith(t, "http://") /\ ~startsWith(t, "https://")
        THEN "https://" \o t
        ELSE t

\* The bands with their low edges exclusive.
statusOf_Exclusive(totalRisk) ==
    IF totalRisk < 30 THEN "safe"
    ELSE IF totalRisk < 70 THEN "warning"
    ELSE "danger"

\* lines 539-543
statusOf(totalRisk) ==
    IF totalRisk <= 30 THEN "safe"
    ELSE IF totalRisk <= 70 THEN "warning"
    ELSE "danger"

\* lines 545-561
resultOf(u, sec) ==
    LET status == statusOf(sec.totalRisk)
    IN  [url |-> u,
         riskScore |-> sec.totalRisk,
         status |-> status,
         vulnerabilities |-> sec.vulnerabilities,
         details |-> [domainAge |-> sec.domainData.domainAge,
                      sslExpiry |-> IF sec.domainData.ssl # Null
                                    THEN "Valid until " \o sec.domainData.ssl[1].expiry
                                    ELSE "SSL status unknown",
                      reputation |-> sec.domainData.reputation,
                      contentAnalysis |-> IF status = "safe" THEN "Legitimate content"
                                          ELSE IF status = "warning"
                                          THEN "Some concerns detected"
                                          ELSE "Potential threats detected",
                      lastScanned |-> sec.domainData.lastScanned,
                      registrar |-> sec.domainData.registrar]]

\* What the user may type into the URL input.
Inputs ==
    { "", "  ", "a b",
      "example.com",
      " https://Google.com ",
      "http://google.com",
      "http://192.168.1.1-test-1-2-3-4.tk",
      "192.168.1.1",
      "https://wikipedia.org",
      "a.tk",
      "http://a-b-c-d.tk",
      "site1234.io",
      "http://a-1-2-3-4.com/login" }

Init ==
    /\ url = ""
    /\ isAnalyzing = FALSE
    /\ analysisProgress = 0
    /\ analysisResult = Null
    /\ toasts = <<>>
    /\ pc = "idle"
    /\ normalizedUrl = ""
    /\ realDomainData = Null
    /\ securityResult = Null
    /\ runs = 0
    /\ lookupOutcome = "none"
    /\ requests = <<>>
    /\ probe = [fn |-> "none"]
    /\ probeOut = Null

\* onChange of the URL input (disabled while analyzing), lines 617-623
SetUrl(text) ==
    /\ ~isAnalyzing
    /\ pc = "idle"
    /\ url' = text
    /\ UNCHANGED <<isAnalyzing, analysisProgress, analysisResult, toasts, pc,
                   normalizedUrl, realDomainData, securityResult, runs, lookupOutcome,
                   requests, probe, probeOut>>

\* analyzeWebsite on an empty input, lines 499-506
AnalyzeEmpty ==
    /\ ~isAnalyzing
    /\ pc = "idle"
    /\ trim(url) = ""
    /\ toasts' = <<"Error">>
    /\ UNCHANGED <<url, isAnalyzing, analysisProgress, analysisResult, pc,
                   normalizedUrl, realDomainData, securityResult, runs, lookupOutcome,
                   requests, probe, probeOut>>

\* analyzeWebsite on an input that is no URL, lines 508-520
AnalyzeInvalid ==
    /\ ~isAnalyzing
    /\ pc = "idle"
    /\ trim(url) # ""
    /\ ~validateUrl(normalizeUrl(url))
    /\ toasts' = <<"Invalid URL">>
    /\ UNCHANGED <<url, isAnalyzing, analysisProgress, analysisResult, pc,
                   normalizedUrl, realDomainData, securityResult, runs, lookupOutcome,
                   requests, probe, probeOut>>

\* The trigger left enabled while a run is in flight.
AnalyzeStart_WhileAnalyzing ==
    /\ runs < MaxRuns
    /\ trim(url) # ""
    /\ validateUrl(normalizeUrl(url))
    /\ normalizedUrl' = normalizeUrl(url)
    /\ isAnalyzing' = TRUE
    /\ analysisProgress' = 20
    /\ toasts' = <<>>
    /\ pc' = "wait1"
    /\ runs' = runs + 1
    /\ lookupOutcome' = "none"
    /\ requests' = <<>>
    /\ UNCHANGED <<url, analysisResult, realDomainData, securityResult, probe, probeOut>>

\* analyzeWebsite on a URL, up to its first await, lines 498-530
AnalyzeStart ==
    /\ ~isAnalyzing
    /\ pc = "idle"
    /\ runs < MaxRuns
    /\ trim(url) # ""
    /\ validateUrl(normalizeUrl(url))
    /\ normalizedUrl' = normalizeUrl(url)
    /\ isAnalyzing' = TRUE
    /\ analysisProgress' = 20
    /\ toasts' = <<>>
    /\ pc' = "wait1"
    /\ runs' = runs + 1
    /\ lookupOutcome' = "none"
    /\ requests' = <<>>
    /\ UNCHANGED <<url, analysisResult, realDomainData, securityResult, probe, probeOut>>

\* The first timer fires: performSecurityChecks starts and fetchRealDomainData
\* issues the lookup, lines 530-533, 360-367, 250-253
FirstTimeout ==
    /\ pc = "wait1"
    /\ \E hostname \in {ParseURL(normalizedUrl).hostname} :
           requests' = Append(requests, lookupRequest(hostname))
    /\ pc' = "fetch"
    /\ UNCHANGED <<url, isAnalyzing, analysisProgress, analysisResult, toasts,
                   normalizedUrl, realDomainData, securityResult, runs, lookupOutcome,
                   probe, probeOut>>

\* The lookup settles and fetchRealDomainData returns, lines 253-326
LookupSettles(lookup, now) ==
    /\ pc = "fetch"
    /\ realDomainData' = Some(fetchRealDomainData(ParseURL(normalizedUrl).hostname,
                                                  startsWith(normalizedUrl, "https://"),
                                                  lookup, now))
    /\ lookupOutcome' = LookupClass(lookup)
    /\ pc' = "checks"
    /\ UNCHANGED <<url, isAnalyzing, analysisProgress, analysisResult, toasts,
                   normalizedUrl, securityResult, runs, requests, probe, probeOut>>

\* The four checks run and performSecurityChecks returns, lines 369-487, 533-536
RunChecks ==
    /\ pc = "checks"
    /\ ~performSecurityChecksThrows(normalizedUrl, realDomainData[1])
    /\ securityResult' = Some(performSecurityChecks(normalizedUrl, realDomainData[1]))
    /\ analysisProgress' = 80
    /\ pc' = "wait2"
    /\ UNCHANGED <<url, isAnalyzing, analysisResult, toasts, normalizedUrl,
                   realDomainData, runs, lookupOutcome, requests, probe, probeOut>>

\* The catch block swallowing the error: no 'Analysis Failed' toast.
ChecksThrow_Swallowed ==
    /\ pc = "checks"
    /\ performSecurityChecksThrows(normalizedUrl, realDomainData[1])
    /\ toasts' = toasts \o <<"Analysis Complete">>
    /\ isAnalyzing' = FALSE
    /\ pc' = "idle"
    /\ normalizedUrl' = ""
    /\ realDomainData' = Null
    /\ UNCHANGED <<url, analysisProgress, analysisResult, securityResult, runs,
                   lookupOutcome, requests, probe, probeOut>>

\* The catch block clearing the stored report.
ChecksThrow_ClearsReport ==
    /\ pc = "checks"
    /\ performSecurityChecksThrows(normalizedUrl, realDomainData[1])
    /\ toasts' = toasts \o <<"Analysis Failed", "Analysis Complete">>
    /\ isAnalyzing' = FALSE
    /\ analysisResult' = Null
    /\ pc' = "idle"
    /\ normalizedUrl' = ""
    /\ realDomainData' = Null
    /\ UNCHANGED <<url, analysisProgress, securityResult, runs,
                   lookupOutcome, requests, probe, probeOut>>

\* The finally block left out: isAnalyzing stays true after a throw.
ChecksThrow_NoFinally ==
    /\ pc = "checks"
    /\ performSecurityChecksThrows(normalizedUrl, realDomainData[1])
    /\ toasts' = toasts \o <<"Analysis Failed", "Analysis Complete">>
    /\ pc' = "idle"
    /\ normalizedUrl' = ""
    /\ realDomainData' = Null
    /\ UNCHANGED <<url, isAnalyzing, analysisProgress, analysisResult, securityResult,
                   runs, lookupOutcome, requests, probe, probeOut>>

\* The four checks throw: performSecurityChecks rejects, the catch block
\* toasts, finally resets isAnalyzing and the closing toast follows,
\* lines 369-377, 533, 565-580
ChecksThrow ==
    /\ pc = "checks"
    /\ performSecurityChecksThrows(normalizedUrl, realDomainData[1])
    /\ toasts' = toasts \o <<"Analysis Failed", "Analysis Complete">>
    /\ isAnalyzing' = FALSE
    /\ pc' = "idle"
    /\ normalizedUrl' = ""
    /\ realDomainData' = Null
    /\ UNCHANGED <<url, analysisProgress, analysisResult, securityResult, runs,
                   lookupOutcome, requests, probe, probeOut>>

\* The second timer fires: the report is stored and the run ends, lines 536-580
SecondTimeout ==
    /\ pc = "wait2"
    /\ analysisProgress' = 100
    /\ analysisResult' = Some(resultOf(normalizedUrl, securityResult[1]))
    /\ isAnalyzing' = FALSE
    /\ toasts' = Append(toasts, "Analysis Complete")
    /\ pc' = "idle"
    /\ normalizedUrl' = ""
    /\ realDomainData' = Null
    /\ securityResult' = Null
    /\ UNCHANGED <<url, runs, lookupOutcome, requests, probe, probeOut>>

Next ==
    \/ \E text \in Inputs : SetUrl(text)
    \/ AnalyzeEmpty
    \/ AnalyzeInvalid
    \/ AnalyzeStart
    \/ FirstTimeout
    \/ \E lookup \in RunLookups : \E now \in NowValues : LookupSettles(lookup, now)
    \/ RunChecks
    \/ ChecksThrow
    \/ SecondTimeout

Spec == Init /\ [][Next]_vars

\* What the event loop guarantees: a timer that was set fires, and the
\* continuation of a settled promise runs.  Nothing makes the lookup settle:
\* fetch is called without a timeout or an abort signal (line 253), and
\* nothing makes the user type or click.
Fairness ==
    /\ WF_vars(FirstTimeout)
    /\ WF_vars(RunChecks)
    /\ WF_vars(ChecksThrow)
    /\ WF_vars(SecondTimeout)

\* The inputs followed when the question is whether a run ends: an empty
\* text, a text that is no URL, a name without scheme, a plain-http URL.
LiveInputs == {"", "a b", "example.com", "http://google.com"}

NextLive ==
    \/ \E text \in LiveInputs : SetUrl(text)
    \/ AnalyzeEmpty
    \/ AnalyzeInvalid
    \/ AnalyzeStart
    \/ FirstTimeout
    \/ \E lookup \in RunLookups : \E now \in NowValues : LookupSettles(lookup, now)
    \/ RunChecks
    \/ ChecksThrow
    \/ SecondTimeout

SpecLive == Init /\ [][NextLive]_vars /\ Fairness

(***************************************************************************)
(* The functions of the component applied on their own, to arguments drawn *)
(* from bounded sets (the analysis itself only ever passes them the        *)
(* results of the steps before).                                           *)
(***************************************************************************)
\* Hostnames of the inputs, the allow-listed domains and a few more shapes.
Hostnames ==
    {ParseURL(normalizeUrl(text)).hostname :
        text \in {t \in Inputs : trim(t) # "" /\ validateUrl(normalizeUrl(t))}}
    \cup {"facebook.com", "youtube.com", "amazon.com", "1.2.3.4",
          "a-very-long-host-name.example.org", "x-1.2.3.io", "a-b-c-d-e.net",
          "a.io", "mit.edu", "nasa.gov", "a.ml", "a.ga", "a.cf",
          "exactly-20-chars.com", "twenty-one-chars-x.tk"}

AgeValues == {Null, Some(-1), Some(0), Some(1), Some(2), Some(4), Some(5), Some(20)}

SslSignals ==
    {Null} \cup
    {Some([valid |-> v, expiry |-> "D1", daysUntilExpiry |-> d, issuer |-> "CA-A"]) :
        v \in BOOLEAN,
        d \in {Null, Some(-1), Some(0), Some(1), Some(10), Some(30), Some(31)}}

DomainDataValues ==
    {[ssl |-> ssl, domainAge |-> "5 years", registrar |-> "CA-A",
      reputation |-> rep, lastScanned |-> toLocaleString(Now0)] :
        ssl \in SslSignals,
        rep \in {"Excellent", "Good", "Fair", "Poor", "Unknown"}}

ProbeUrls ==
    {"https://example.com", "http://example.com", "https://192.168.1.1",
     "http://192.168.1.1-test-1-2-3-4.tk", "https://site1234.io",
     "http://a-1-2-3-4.com/login", "https://a-b-c-d-e.net", "http://1.2.3.4"}

ResolveProbes ==
    [fn : {"fetchRealDomainData"}, hostname : {"example.com", "a.tk"},
     isHttps : BOOLEAN, lookup : Lookups, now : NowValues]

ReputationProbes ==
    [fn : {"calculateDomainReputation"}, hostname : Hostnames, domainAge : AgeValues]

ChecksProbes ==
    [fn : {"performSecurityChecks"}, url : ProbeUrls, data : DomainDataValues]

ResultProbes ==
    {[fn |-> "resultOf", url |-> "https://example.com",
      sec |-> [vulnerabilities |-> <<>>, totalRisk |-> r,
               domainData |-> [ssl |-> Null, domainAge |-> "5 years",
                               registrar |-> "Verified Registry",
                               reputation |-> "Excellent",
                               lastScanned |-> toLocaleString(Now0)]]] :
        r \in 0..100}

PureInit ==
    /\ url = ""
    /\ isAnalyzing = FALSE
    /\ analysisProgress = 0
    /\ analysisResult = Null
    /\ toasts = <<>>
    /\ pc = "idle"
    /\ normalizedUrl = ""
    /\ realDomainData = Null
    /\ securityResult = Null
    /\ runs = 0
    /\ lookupOutcome = "none"
    /\ requests = <<>>
    /\ probe \in ResolveProbes \cup ReputationProbes \cup ChecksProbes \cup ResultProbes
    /\ probeOut = Null

ApplyResolve ==
    /\ probe.fn = "fetchRealDomainData"
    /\ probeOut = Null
    /\ probeOut' = Some(fetchRealDomainData(probe.hostname, probe.isHttps,
                                            probe.lookup, probe.now))
    /\ UNCHANGED <<uiVars, probe>>

ApplyReputation ==
    /\ probe.fn = "calculateDomainReputation"
    /\ probeOut = Null
    /\ probeOut' = Some([score |-> reputationScore(probe.hostname, probe.domainAge),
                         label |-> calculateDomainReputation(probe.hostname,
                                                             probe.domainAge)])
    /\ UNCHANGED <<uiVars, probe>>

ApplyChecks ==
    /\ probe.fn = "performSecurityChecks"
    /\ probeOut = Null
    /\ probeOut' = Some(performSecurityChecks(probe.url, probe.data))
    /\ UNCHANGED <<uiVars, probe>>

ApplyResult ==
    /\ probe.fn = "resultOf"
    /\ probeOut = Null
    /\ probeOut' = Some(resultOf(probe.url, probe.sec))
    /\ UNCHANGED <<uiVars, probe>>

PureNext == ApplyResolve \/ ApplyReputation \/ ApplyChecks \/ ApplyResult

SpecPure == PureInit /\ [][PureNext]_vars

(***************************************************************************)
(* Reading a list of findings, for the properties below.                   *)
(***************************************************************************)
FindingsOfType(v, type) == SelectSeq(v, LAMBDA f : f.type = type)

TheFinding(v, type) == FindingsOfType(v, type)[1]

\* The points a finding stands for, by the tables of the design: the
\* Certificate, Protocol and Reputation findings.
PointsOf(f) ==
    CASE f.type = "SSL Certificate" ->
            IF f.status = "secure" THEN 0
            ELSE IF f.status = "danger" THEN 40
            ELSE IF f.message = "Could not verify SSL certificate" THEN 15
            ELSE 20
      [] f.type = "HTTPS Protocol" -> IF f.status = "secure" THEN 0 ELSE 30
      [] f.type = "Domain Reputation" ->
            IF f.status = "secure" THEN 0
            ELSE IF f.status = "warning" THEN 15
            ELSE 35

\* The URL-structure subtotal by the rules of the design.
UrlPoints(hostname) ==
    (IF matchesIpPattern(hostname) THEN 20 ELSE 0)
    + (IF CountIn(hostname, {"-"}) > 3 THEN 10 ELSE 0)
    + (IF CountIn(hostname, Digit) > 3 THEN 10 ELSE 0)

\* The unclamped sum of the four contributions of a list of findings.
SumOfContributions(v, hostname) ==
    PointsOf(TheFinding(v, "SSL Certificate"))
    + PointsOf(TheFinding(v, "HTTPS Protocol"))
    + PointsOf(TheFinding(v, "Domain Reputation"))
    + UrlPoints(hostname)

\* The result of performSecurityChecks is at hand (the run awaits its second timer).
ChecksDone == pc = "wait2" /\ securityResult # Null

RunHostname == ParseURL(normalizedUrl).hostname

(***************************************************************************)
(* C1: every result of performSecurityChecks has totalRisk equal to        *)
(* min(100, certificate + protocol + reputation + URL-structure            *)
(* contribution), so 0 <= totalRisk <= 100 also when the sum exceeds 100;  *)
(* the stored report carries the same bounded score.                       *)
(***************************************************************************)
C1_TotalRiskIsClampedSum ==
    /\ ChecksDone =>
          LET sum == SumOfContributions(securityResult[1].vulnerabilities, RunHostname)
              totalRisk == securityResult[1].totalRisk
          IN  /\ sum >= 0
              /\ totalRisk = (IF sum > 100 THEN 100 ELSE sum)
              /\ 0 <= totalRisk /\ totalRisk <= 100
    /\ analysisResult # Null =>
          /\ 0 <= analysisResult[1].riskScore
          /\ analysisResult[1].riskScore <= 100

\* A run whose contributions sum past 100 and whose totalRisk is 100.
C1_Witness ==
    /\ ChecksDone
    /\ SumOfContributions(securityResult[1].vulnerabilities, RunHostname) > 100
    /\ securityResult[1].totalRisk = 100

(***************************************************************************)
(* C2: the status of a report is the three-band function of its riskScore, *)
(* for every risk in 0..100: safe iff risk <= 30, warning iff              *)
(* 30 < risk <= 70, danger iff risk > 70, and the riskScore stored is the  *)
(* total risk the report was built from.                                   *)
(***************************************************************************)
C2_StatusIsBandOfRisk ==
    (probe.fn = "resultOf" /\ probeOut # Null) =>
        LET risk == probeOut[1].riskScore
            status == probeOut[1].status
        IN  /\ risk = probe.sec.totalRisk
            /\ status \in {"safe", "warning", "danger"}
            /\ (status = "safe") <=> (risk <= 30)
            /\ (status = "warning") <=> (30 < risk /\ risk <= 70)
            /\ (status = "danger") <=> (risk > 70)
            /\ risk = 30 => status = "safe"
            /\ risk \in {31, 70} => status = "warning"
            /\ risk = 71 => status = "danger"

\* The report built from a total risk of 31: the first warning.
C2_Witness ==
    /\ probe.fn = "resultOf"
    /\ probeOut # Null
    /\ probeOut[1].riskScore = 31
    /\ probeOut[1].status = "warning"

(***************************************************************************)
(* C3: given a non-empty list of certificate records, the resolver takes   *)
(* expiry, daysUntilExpiry and issuer from a record with the latest        *)
(* not-after among the records whose not-after is well-formed, in whatever *)
(* order the records come; a record with a malformed not-after is never    *)
(* the one selected.                                                       *)
(***************************************************************************)
WellFormedAt(items) ==
    {i \in 1..Len(items) : ~items[i].isNull /\ items[i].not_after # Null}

LatestNotAfter(items) ==
    CHOOSE t \in {items[i].not_after[1] : i \in WellFormedAt(items)} :
        \A i \in WellFormedAt(items) : items[i].not_after[1] <= t

IssuerShown(entry) == IF entry.issuer_name = "" THEN "Unknown CA" ELSE entry.issuer_name

\* A lookup that returned a non-empty list of records, one at least well-formed.
RecordsReturned(lookup) ==
    /\ lookup.kind = "json"
    /\ lookup.isArray
    /\ Len(lookup.items) > 0
    /\ \A i \in 1..Len(lookup.items) : ~lookup.items[i].isNull
    /\ WellFormedAt(lookup.items) # {}

Reordered(items, p) == [i \in 1..Len(items) |-> items[p[i]]]

C3_ResolverSelectsLatest ==
    (probe.fn = "fetchRealDomainData" /\ probeOut # Null /\ RecordsReturned(probe.lookup)) =>
        LET items == probe.lookup.items
            latest == LatestNotAfter(items)
            ssl == probeOut[1].ssl
        IN  /\ ssl # Null
            /\ ssl[1].expiry = toLocaleDateString(latest)
            /\ ssl[1].daysUntilExpiry = Some(Ceil(latest - probe.now, DAY))
            /\ \E i \in WellFormedAt(items) :
                  /\ items[i].not_after[1] = latest
                  /\ ssl[1].issuer = IssuerShown(items[i])
            /\ \A p \in Permutations(1..Len(items)) :
                  LET other == fetchRealDomainData(
                                   probe.hostname, probe.isHttps,
                                   [probe.lookup EXCEPT !.items = Reordered(items, p)],
                                   probe.now).ssl
                  IN  /\ other # Null
                      /\ other[1].expiry = ssl[1].expiry
                      /\ other[1].daysUntilExpiry = ssl[1].daysUntilExpiry
                      /\ other[1].valid = ssl[1].valid
                      /\ (Cardinality({i \in WellFormedAt(items) :
                                          items[i].not_after[1] = latest}) = 1
                             => other[1].issuer = ssl[1].issuer)

\* Two well-formed records, the later one second: the later one is selected.
C3_Witness ==
    /\ probe.fn = "fetchRealDomainData"
    /\ probeOut # Null
    /\ RecordsReturned(probe.lookup)
    /\ Len(probe.lookup.items) = 2
    /\ WellFormedAt(probe.lookup.items) = {1, 2}
    /\ probe.lookup.items[1].not_after[1] < probe.lookup.items[2].not_after[1]
    /\ probeOut[1].ssl # Null
    /\ probeOut[1].ssl[1].issuer = IssuerShown(probe.lookup.items[2])
    /\ probeOut[1].ssl[1].issuer # IssuerShown(probe.lookup.items[1])

(***************************************************************************)
(* C4: for every hostname of the allow-list of calculateDomainReputation   *)
(* and every age (any integer, or unknown) the score is 95 and the label   *)
(* is Excellent.                                                           *)
(***************************************************************************)
C4_AllowListIsExcellent ==
    (/\ probe.fn = "calculateDomainReputation"
     /\ probeOut # Null
     /\ probe.hostname \in {"google.com", "facebook.com", "youtube.com", "amazon.com"}) =>
        /\ probeOut[1].score = 95
        /\ probeOut[1].label = "Excellent"

\* An allow-listed host of age -1, which the other rules alone would score 50.
C4_Witness ==
    /\ probe.fn = "calculateDomainReputation"
    /\ probeOut # Null
    /\ probe.hostname = "amazon.com"
    /\ probe.domainAge = Some(-1)
    /\ probeOut[1].label = "Excellent"

(***************************************************************************)
(* C5: urlRisk is 20 if the hostname matches the dotted-quad pattern, plus *)
(* 10 if it has more than 3 hyphens, plus 10 if it has more than 3 digits; *)
(* the check emits exactly one finding, secure when urlRisk is 0, warning  *)
(* when 0 < urlRisk <= 15, danger when urlRisk > 15, and urlRisk is added  *)
(* to the aggregate.                                                       *)
(***************************************************************************)
C5_UrlStructureIsAdditive ==
    (probe.fn = "performSecurityChecks" /\ probeOut # Null) =>
        LET hostname == ParseURL(probe.url).hostname
            v == probeOut[1].vulnerabilities
            urlRisk == UrlPoints(hostname)
            found == FindingsOfType(v, "URL Structure")
            others == PointsOf(TheFinding(v, "SSL Certificate"))
                      + PointsOf(TheFinding(v, "HTTPS Protocol"))
                      + PointsOf(TheFinding(v, "Domain Reputation"))
        IN  /\ Len(found) = 1
            /\ found[1].status = (IF urlRisk = 0 THEN "secure"
                                  ELSE IF urlRisk <= 15 THEN "warning"
                                  ELSE "danger")
            /\ probeOut[1].totalRisk = Min(100, others + urlRisk)

\* An IP-literal host with 8 digits and nothing else at risk: 20 + 10 = 30.
C5_Witness ==
    /\ probe.fn = "performSecurityChecks"
    /\ probeOut # Null
    /\ probe.url = "https://192.168.1.1"
    /\ probeOut[1].totalRisk = 30
    /\ TheFinding(probeOut[1].vulnerabilities, "URL Structure").status = "danger"
    /\ TheFinding(probeOut[1].vulnerabilities, "SSL Certificate").status = "secure"
    /\ TheFinding(probeOut[1].vulnerabilities, "Domain Reputation").status = "secure"

\* The four findings of v are all secure.
AllSecure(v) ==
    /\ Len(v) = 4
    /\ \A type \in {"SSL Certificate", "HTTPS Protocol", "Domain Reputation",
                    "URL Structure"} :
          /\ Len(FindingsOfType(v, type)) = 1
          /\ TheFinding(v, type).status = "secure"

\* No run is in flight and a report is stored.
ReportOfLatestRun == pc = "idle" /\ analysisResult # Null

(***************************************************************************)
(* C6: the input "example.com" is normalized to https://example.com, and   *)
(* when the lookup finds no certificate record the four findings are       *)
(* secure (the certificate one by the charitable fallback), totalRisk is 0 *)
(* and the status is safe.                                                 *)
(***************************************************************************)
C6_ExampleComIsSafe ==
    /\ (pc # "idle" /\ url = "example.com") => normalizedUrl = "https://example.com"
    /\ (ChecksDone /\ url = "example.com" /\ lookupOutcome = "norecord") =>
          /\ AllSecure(securityResult[1].vulnerabilities)
          /\ TheFinding(securityResult[1].vulnerabilities, "SSL Certificate").message
                = "SSL certificate detected (expiry unknown)"
          /\ securityResult[1].totalRisk = 0
    /\ (/\ ReportOfLatestRun
        /\ analysisResult[1].url = "https://example.com"
        /\ lookupOutcome = "norecord") =>
          /\ AllSecure(analysisResult[1].vulnerabilities)
          /\ analysisResult[1].riskScore = 0
          /\ analysisResult[1].status = "safe"

\* The report of example.com after a lookup that found nothing.
C6_Witness ==
    /\ ReportOfLatestRun
    /\ url = "example.com"
    /\ analysisResult[1].url = "https://example.com"
    /\ lookupOutcome = "norecord"
    /\ analysisResult[1].status = "safe"
    /\ analysisResult[1].riskScore = 0

(***************************************************************************)
(* C7: for http://192.168.1.1-test-1-2-3-4.tk, whatever the lookup         *)
(* returns, the Protocol finding is danger (+30), the Reputation finding   *)
(* is danger (Poor, +35), the contributions sum to at least 85, totalRisk  *)
(* is at most 100 and the status is danger.                                *)
(***************************************************************************)
Scenario2Url == "http://192.168.1.1-test-1-2-3-4.tk"

C7_Scenario2IsDanger ==
    /\ (ChecksDone /\ normalizedUrl = Scenario2Url) =>
          LET v == securityResult[1].vulnerabilities
              protocol == TheFinding(v, "HTTPS Protocol")
              reputation == TheFinding(v, "Domain Reputation")
              sum == SumOfContributions(v, RunHostname)
          IN  /\ protocol.status = "danger"
              /\ reputation.status = "danger"
              /\ reputation.message = "Poor domain reputation - high risk"
              /\ lookupOutcome # "failed" => realDomainData[1].reputation = "Poor"
              /\ sum >= 85
              /\ securityResult[1].totalRisk = Min(100, sum)
              /\ securityResult[1].totalRisk <= 100
    /\ (ReportOfLatestRun /\ analysisResult[1].url = Scenario2Url) =>
          /\ analysisResult[1].status = "danger"
          /\ analysisResult[1].riskScore <= 100

\* The report of scenario 2 after a lookup that returned a record.
C7_Witness ==
    /\ ReportOfLatestRun
    /\ analysisResult[1].url = Scenario2Url
    /\ lookupOutcome = "record"
    /\ analysisResult[1].status = "danger"
    /\ analysisResult[1].details.reputation = "Poor"

(***************************************************************************)
(* C8: for the hostname 192.168.1.1-test-1-2-3-4.tk the IP-literal rule    *)
(* does not fire: the URL-structure check contributes exactly 20 (hyphens  *)
(* and digits) and its finding is danger.                                  *)
(***************************************************************************)
C8_IpRuleDoesNotFire ==
    (ChecksDone /\ normalizedUrl = Scenario2Url) =>
        LET v == securityResult[1].vulnerabilities
            others == PointsOf(TheFinding(v, "SSL Certificate"))
                      + PointsOf(TheFinding(v, "HTTPS Protocol"))
                      + PointsOf(TheFinding(v, "Domain Reputation"))
        IN  /\ TheFinding(v, "URL Structure").status = "danger"
            /\ securityResult[1].totalRisk = Min(100, others + 20)

(***************************************************************************)
(* C9: the Certificate finding and its contribution depend on the          *)
(* certificate signal alone: valid with unknown daysUntilExpiry secure/0;  *)
(* valid with daysUntilExpiry > 30 secure/0; valid with                    *)
(* 0 < daysUntilExpiry <= 30 warning/20; invalid or daysUntilExpiry <= 0   *)
(* danger/40; no signal at all warning/15.                                 *)
(***************************************************************************)
CertificateTable(ssl) ==
    IF ssl = Null THEN [status |-> "warning", risk |-> 15]
    ELSE IF ~ssl[1].valid THEN [status |-> "danger", risk |-> 40]
    ELSE IF ssl[1].daysUntilExpiry = Null THEN [status |-> "secure", risk |-> 0]
    ELSE IF ssl[1].daysUntilExpiry[1] <= 0 THEN [status |-> "danger", risk |-> 40]
    ELSE IF ssl[1].daysUntilExpiry[1] <= 30 THEN [status |-> "warning", risk |-> 20]
    ELSE [status |-> "secure", risk |-> 0]

C9_CertificateFindingBySignalOnly ==
    (probe.fn = "performSecurityChecks" /\ probeOut # Null) =>
        LET v == probeOut[1].vulnerabilities
            finding == TheFinding(v, "SSL Certificate")
            expected == CertificateTable(probe.data.ssl)
            others == PointsOf(TheFinding(v, "HTTPS Protocol"))
                      + PointsOf(TheFinding(v, "Domain Reputation"))
                      + UrlPoints(ParseURL(probe.url).hostname)
        IN  /\ Len(FindingsOfType(v, "SSL Certificate")) = 1
            /\ finding.status = expected.status
            /\ probeOut[1].totalRisk = Min(100, expected.risk + others)
            /\ \A u \in ProbeUrls : \A d \in DomainDataValues :
                  d.ssl = probe.data.ssl =>
                      TheFinding(performSecurityChecks(u, d).vulnerabilities,
                                 "SSL Certificate") = finding

\* A valid certificate with 10 days left, next to a danger Reputation
\* finding and a danger Protocol finding: warning, 20 + 30 + 35.
C9_Witness ==
    /\ probe.fn = "performSecurityChecks"
    /\ probeOut # Null
    /\ probe.url = "http://example.com"
    /\ probe.data.ssl # Null
    /\ probe.data.ssl[1].valid
    /\ probe.data.ssl[1].daysUntilExpiry = Some(10)
    /\ TheFinding(probeOut[1].vulnerabilities, "SSL Certificate").status = "warning"
    /\ TheFinding(probeOut[1].vulnerabilities, "Domain Reputation").status = "danger"
    /\ probeOut[1].totalRisk = 85

(***************************************************************************)
(* C10: when the lookup yields no usable certificate record, an https://   *)
(* URL gets the signal {valid, expiry unknown, daysUntilExpiry unknown,    *)
(* issuer unknown} and a secure Certificate finding with 0 risk; any other *)
(* URL gets no signal and a warning Certificate finding with 15 risk.      *)
(***************************************************************************)
C10_NoRecordFallback ==
    /\ (pc \in {"checks", "wait2"} /\ lookupOutcome = "norecord") =>
          realDomainData[1].ssl =
              (IF startsWith(normalizedUrl, "https://")
               THEN Some([valid |-> TRUE, expiry |-> "Unknown",
                          daysUntilExpiry |-> Null, issuer |-> "Unknown"])
               ELSE Null)
    /\ (ChecksDone /\ lookupOutcome = "norecord") =>
          LET v == securityResult[1].vulnerabilities
              finding == TheFinding(v, "SSL Certificate")
              https == startsWith(normalizedUrl, "https://")
              others == PointsOf(TheFinding(v, "HTTPS Protocol"))
                        + PointsOf(TheFinding(v, "Domain Reputation"))
                        + UrlPoints(RunHostname)
          IN  /\ finding.status = (IF https THEN "secure" ELSE "warning")
              /\ finding.message = (IF https
                                    THEN "SSL certificate detected (expiry unknown)"
                                    ELSE "Could not verify SSL certificate")
              /\ securityResult[1].totalRisk
                    = Min(100, (IF https THEN 0 ELSE 15) + others)

\* A plain-http run whose lookup found nothing: no signal, warning.
C10_Witness ==
    /\ ChecksDone
    /\ lookupOutcome = "norecord"
    /\ ~startsWith(normalizedUrl, "https://")
    /\ realDomainData[1].ssl = Null
    /\ TheFinding(securityResult[1].vulnerabilities, "SSL Certificate").status = "warning"

(***************************************************************************)
(* C11: a failure of the certificate lookup (the fetch rejects, the body   *)
(* cannot be parsed, the data is malformed) is treated as "no records":    *)
(* the severities of the four findings, totalRisk and the status after a   *)
(* failed lookup are those of the same URL with a lookup that returns an   *)
(* empty list, and the Reputation finding is danger only if it is danger   *)
(* with the empty list too.                                                *)
(***************************************************************************)
EmptyLookup == [kind |-> "json", isArray |-> TRUE, items |-> <<>>]

\* What performSecurityChecks returns for the URL of the run when the lookup
\* returns an empty list.
ChecksWithNoRecords ==
    performSecurityChecks(normalizedUrl,
                          fetchRealDomainData(RunHostname,
                                              startsWith(normalizedUrl, "https://"),
                                              EmptyLookup, Now0))

Severities(v) == [i \in 1..Len(v) |-> [type |-> v[i].type, status |-> v[i].status]]

C11_LookupFailureIsNoRecords ==
    (ChecksDone /\ lookupOutcome = "failed") =>
        LET got == securityResult[1]
            ref == ChecksWithNoRecords
        IN  /\ Severities(got.vulnerabilities) = Severities(ref.vulnerabilities)
            /\ got.totalRisk = ref.totalRisk
            /\ statusOf(got.totalRisk) = statusOf(ref.totalRisk)
            /\ (TheFinding(got.vulnerabilities, "Domain Reputation").status = "danger"
                   => TheFinding(ref.vulnerabilities, "Domain Reputation").status = "danger")

(***************************************************************************)
(* C12: in every completed analysis, a failed lookup included, the         *)
(* reputation carried in the report (details.reputation, the value the     *)
(* Reputation finding is derived from) is one of the four labels           *)
(* Excellent, Good, Fair, Poor.                                            *)
(***************************************************************************)
ReputationLabels == {"Excellent", "Good", "Fair", "Poor"}

C12_ReputationIsOneOfFourLabels ==
    /\ ChecksDone => securityResult[1].domainData.reputation \in ReputationLabels
    /\ analysisResult # Null => analysisResult[1].details.reputation \in ReputationLabels

(***************************************************************************)
(* C13: every result of performSecurityChecks holds exactly four findings, *)
(* one per check, in the order Certificate, Protocol, Reputation, URL      *)
(* Structure, on every branch of every check, and the severity of each is  *)
(* secure, warning or danger.                                              *)
(***************************************************************************)
CheckOrder == <<"SSL Certificate", "HTTPS Protocol", "Domain Reputation", "URL Structure">>

C13_FourFindingsInOrder ==
    (probe.fn = "performSecurityChecks" /\ probeOut # Null) =>
        LET v == probeOut[1].vulnerabilities
        IN  /\ Len(v) = 4
            /\ [i \in 1..Len(v) |-> v[i].type] = CheckOrder
            /\ \A i \in 1..Len(v) : v[i].status \in {"secure", "warning", "danger"}

\* The result where every check took its last branch: no certificate
\* signal, plain http, a reputation that is none of the first three labels
\* and a hostname without suspicious pattern.
C13_Witness ==
    /\ probe.fn = "performSecurityChecks"
    /\ probeOut # Null
    /\ probe.url = "http://example.com"
    /\ probe.data.ssl = Null
    /\ probe.data.reputation = "Unknown"
    /\ Len(probeOut[1].vulnerabilities) = 4
    /\ [i \in 1..4 |-> probeOut[1].vulnerabilities[i].status]
          = <<"warning", "danger", "danger", "secure">>

(***************************************************************************)
(* C14: when the submitted string is empty or is no parseable URL even     *)
(* after the scheme was prepended, analyzeWebsite rejects the request      *)
(* before anything else happens: no lookup is issued, the analyzer does    *)
(* not enter the analyzing state and no report is produced.                *)
(***************************************************************************)
\* The text of the input is one analyzeWebsite has to reject.
Rejectable ==
    \/ trim(url) = ""
    \/ ~ParseURL(normalizeUrl(url)).ok

\* analyzeWebsite has answered the latest click with a rejection.
Rejected == toasts \in {<<"Error">>, <<"Invalid URL">>}

C14_RejectedInputDoesNothing ==
    [][ /\ (~isAnalyzing /\ pc = "idle" /\ Rejectable /\ url' = url) =>
              /\ toasts' \in {toasts, <<"Error">>, <<"Invalid URL">>}
              /\ isAnalyzing' = FALSE
              /\ pc' = "idle"
              /\ requests' = requests
              /\ analysisResult' = analysisResult
              /\ analysisProgress' = analysisProgress
        /\ (Rejected' /\ ~Rejected) => (pc = "idle" /\ Rejectable) ]_vars

\* A rejection that follows a completed run: the report of that run is
\* still the one stored and nothing more was sent.
C14_Witness ==
    /\ toasts = <<"Invalid URL">>
    /\ url = "a b"
    /\ pc = "idle"
    /\ ~isAnalyzing
    /\ runs = 1
    /\ analysisResult # Null
    /\ Len(requests) = 1

(***************************************************************************)
(* C15: for every parseable URL and every behaviour of the lookup (it      *)
(* returns records, returns none, returns malformed data, throws) the run  *)
(* ends by storing a report with four findings; a failure of the lookup    *)
(* never produces the 'Analysis Failed' outcome and never aborts the run.  *)
(***************************************************************************)
Toasted(title) == \E i \in 1..Len(toasts) : toasts[i] = title

\* The lookup of the latest accepted run has settled and the run is over.
RunOver == pc = "idle" /\ lookupOutcome # "none"

C15_LookupNeverAbortsRun ==
    /\ ~Toasted("Analysis Failed")
    /\ RunOver => /\ analysisResult # Null
                  /\ Len(analysisResult[1].vulnerabilities) = 4

(***************************************************************************)
(* C16: if the analysis throws after the input was accepted, the caller is *)
(* shown the 'Analysis Failed' outcome, which is not the 'Invalid URL'     *)
(* outcome of a rejected input, no report is stored for that run, and the  *)
(* analyzer is back in the idle state, where a retry can be started.       *)
(***************************************************************************)
\* analyzeWebsite would accept the text u of the input.
Acceptable(u) == trim(u) # "" /\ ParseURL(normalizeUrl(u)).ok

ToastedIn(titles, title) == \E i \in 1..Len(titles) : titles[i] = title

\* The analyzer is idle and analyzeWebsite would accept the text of the input.
RetryCanStart == ~isAnalyzing /\ pc = "idle" /\ Acceptable(url)

C16_ThrowGivesAnalysisFailed ==
    [][ /\ (pc = "checks" /\ certificateCheckThrows(realDomainData[1].ssl)) =>
              /\ ToastedIn(toasts', "Analysis Failed")
              /\ ~ToastedIn(toasts', "Invalid URL")
              /\ ~ToastedIn(toasts', "Error")
              /\ analysisResult' = analysisResult
              /\ isAnalyzing' = FALSE
              /\ pc' = "idle"
              /\ url' = url
              /\ Acceptable(url)
        /\ (ToastedIn(toasts', "Analysis Failed") /\ ~ToastedIn(toasts, "Analysis Failed")) =>
              /\ pc = "checks"
              /\ analysisResult' = analysisResult
              /\ isAnalyzing' = FALSE
              /\ pc' = "idle" ]_vars

\* The first run has thrown: 'Analysis Failed' is shown, nothing is stored
\* and the analyzer is idle with the same URL in the input.
C16_Witness ==
    /\ Toasted("Analysis Failed")
    /\ runs = 1
    /\ analysisResult = Null
    /\ RetryCanStart

(***************************************************************************)
(* C17: whenever the status of the report is safe (the report view then    *)
(* says the website "has passed all security checks") each of its four     *)
(* findings is secure: no safe report holds a warning or danger finding.   *)
(***************************************************************************)
C17_SafeMeansAllSecure ==
    (analysisResult # Null /\ analysisResult[1].status = "safe") =>
        AllSecure(analysisResult[1].vulnerabilities)

(***************************************************************************)
(* C18: certificate-transparency entries are filtered to the names that    *)
(* match the analysed hostname exactly or by wildcard: an entry for        *)
(* another name never determines the certificate signal (expiry, validity, *)
(* issuer), which is the signal of the matching entries alone.             *)
(***************************************************************************)
NamesHost(entry) == entry.namesHost

C18_OnlyMatchingEntriesCount ==
    (/\ probe.fn = "fetchRealDomainData"
     /\ probeOut # Null
     /\ ~LookupThrows(probe.lookup)) =>
        LET matching == [probe.lookup EXCEPT !.items = SelectSeq(@, NamesHost)]
        IN  probeOut[1].ssl
                = WithFallback(SslFromCt(matching, probe.now), probe.isHttps)

(***************************************************************************)
(* C19: results are computed in the browser without sending the URL to a   *)
(* server: during an analysis no message sent to a remote service holds    *)
(* the analysed URL or data derived from it.                               *)
(***************************************************************************)
Contains(s, sub) ==
    \E i \in 1..(Len(s) - Len(sub) + 1) : SubSeq(s, i, i + Len(sub) - 1) = sub

C19_UrlNeverLeavesBrowser ==
    pc # "idle" =>
        \A i \in 1..Len(requests) :
            /\ ~Contains(requests[i], normalizedUrl)
            /\ ~Contains(requests[i], RunHostname)

(***************************************************************************)
(* C20: in calculateDomainReputation an age >= 5 adds 20, an age in [2,5)  *)
(* adds 10, every known age below 2, the age 0 included, takes 10 off, and *)
(* only an unknown age leaves the score as it is.                          *)
(***************************************************************************)
AgeAdjustment(domainAge) ==
    IF domainAge = Null THEN 0
    ELSE IF domainAge[1] >= 5 THEN 20
    ELSE IF domainAge[1] >= 2 THEN 10
    ELSE -10

C20_AgeAdjustment ==
    (/\ probe.fn = "calculateDomainReputation"
     /\ probeOut # Null
     /\ probe.hostname \notin {"google.com", "facebook.com", "youtube.com", "amazon.com"}) =>
        probeOut[1].score
            = reputationScore(probe.hostname, Null) + AgeAdjustment(probe.domainAge)

(***************************************************************************)
(* C21: for a fixed age adjustment calculateDomainReputation starts from   *)
(* 50 and adds 10 for a TLD in {com, org, edu, gov}, -20 for a TLD in      *)
(* {tk, ml, ga, cf}, -5 for a hostname longer than 20 characters and -10   *)
(* for more than 2 hyphens, all additive (a short .com host of unknown age *)
(* that is not allow-listed scores 60); the label is Excellent iff         *)
(* score >= 80, Good iff 60 <= score < 80, Fair iff 40 <= score < 60,      *)
(* Poor iff score < 40.                                                    *)
(***************************************************************************)
\* A hostname none of the hostname rules applies to.
PlainHost == "a.io"

HostnamePoints(hostname) ==
    LET tld == toLowerCase(LastLabel(hostname))
    IN  (IF tld \in {"com", "org", "edu", "gov"} THEN 10 ELSE 0)
        + (IF tld \in {"tk", "ml", "ga", "cf"} THEN -20 ELSE 0)
        + (IF Len(hostname) > 20 THEN -5 ELSE 0)
        + (IF CountIn(hostname, {"-"}) > 2 THEN -10 ELSE 0)

C21_ReputationScoring ==
    (probe.fn = "calculateDomainReputation" /\ probeOut # Null) =>
        LET score == probeOut[1].score
            label == probeOut[1].label
            allowListed == probe.hostname \in {"google.com", "facebook.com",
                                               "youtube.com", "amazon.com"}
        IN  /\ reputationScore(PlainHost, Null) = 50
            /\ ~allowListed =>
                  score = reputationScore(PlainHost, probe.domainAge)
                          + HostnamePoints(probe.hostname)
            /\ (probe.hostname = "example.com" /\ probe.domainAge = Null) => score = 60
            /\ (label = "Excellent") <=> (score >= 80)
            /\ (label = "Good") <=> (60 <= score /\ score < 80)
            /\ (label = "Fair") <=> (40 <= score /\ score < 60)
            /\ (label = "Poor") <=> (score < 40)

\* A .com host of age 5: 50 + 20 + 10 = 80, the lowest Excellent.
C21_Witness ==
    /\ probe.fn = "calculateDomainReputation"
    /\ probeOut # Null
    /\ probe.hostname = "example.com"
    /\ probe.domainAge = Some(5)
    /\ probeOut[1].score = 80
    /\ probeOut[1].label = "Excellent"

(***************************************************************************)
(* C22: the Reputation finding is derived from the reputation label only:  *)
(* Excellent or Good gives secure and adds 0, Fair gives warning and adds  *)
(* 15, Poor gives danger and adds 35.                                      *)
(***************************************************************************)
ReputationTable(label) ==
    CASE label \in {"Excellent", "Good"} -> [status |-> "secure", risk |-> 0]
      [] label = "Fair" -> [status |-> "warning", risk |-> 15]
      [] label = "Poor" -> [status |-> "danger", risk |-> 35]

C22_ReputationFindingByLabel ==
    (/\ probe.fn = "performSecurityChecks"
     /\ probeOut # Null
     /\ probe.data.reputation \in ReputationLabels) =>
        LET v == probeOut[1].vulnerabilities
            expected == ReputationTable(probe.data.reputation)
            others == CertificateTable(probe.data.ssl).risk
                      + (IF startsWith(probe.url, "https://") THEN 0 ELSE 30)
                      + UrlPoints(ParseURL(probe.url).hostname)
        IN  /\ Len(FindingsOfType(v, "Domain Reputation")) = 1
            /\ TheFinding(v, "Domain Reputation").status = expected.status
            /\ probeOut[1].totalRisk = Min(100, others + expected.risk)
            /\ \A u \in ProbeUrls : \A d \in DomainDataValues :
                  d.reputation = probe.data.reputation =>
                      TheFinding(performSecurityChecks(u, d).vulnerabilities,
                                 "Domain Reputation").status = expected.status

\* A Good reputation next to an expired certificate on plain http: secure,
\* and the total is 40 + 30 + 0.
C22_Witness ==
    /\ probe.fn = "performSecurityChecks"
    /\ probeOut # Null
    /\ probe.url = "http://example.com"
    /\ probe.data.reputation = "Good"
    /\ probe.data.ssl # Null
    /\ ~probe.data.ssl[1].valid
    /\ TheFinding(probeOut[1].vulnerabilities, "Domain Reputation").status = "secure"
    /\ probeOut[1].totalRisk = 70

(***************************************************************************)
(* C23: the Protocol finding is secure with 0 risk exactly when the        *)
(* analysed URL starts with https://, and danger with 30 risk otherwise;   *)
(* an input submitted without a scheme is normalized to https:// and so    *)
(* always gets a secure Protocol finding.                                  *)
(***************************************************************************)
\* The text of the input names no scheme.
SchemeLess(text) ==
    /\ ~startsWith(trim(text), "http://")
    /\ ~startsWith(trim(text), "https://")

C23_ProtocolFindingByScheme ==
    ChecksDone =>
        LET v == securityResult[1].vulnerabilities
            protocol == TheFinding(v, "HTTPS Protocol")
            https == SubSeq(normalizedUrl, 1, 8) = "https://"
            others == PointsOf(TheFinding(v, "SSL Certificate"))
                      + PointsOf(TheFinding(v, "Domain Reputation"))
                      + UrlPoints(RunHostname)
        IN  /\ Len(FindingsOfType(v, "HTTPS Protocol")) = 1
            /\ protocol.status \in {"secure", "danger"}
            /\ (protocol.status = "secure") <=> https
            /\ securityResult[1].totalRisk
                  = Min(100, others + (IF https THEN 0 ELSE 30))
            /\ SchemeLess(url) => protocol.status = "secure"

\* A run on an input without scheme whose Protocol finding is secure.
C23_Witness ==
    /\ ChecksDone
    /\ url = "a.tk"
    /\ normalizedUrl = "https://a.tk"
    /\ TheFinding(securityResult[1].vulnerabilities, "HTTPS Protocol").status = "secure"

(***************************************************************************)
(* C24: for the selected certificate record with expiry time e and the     *)
(* current time now, daysUntilExpiry = ceil((e - now) / one day) and       *)
(* valid = (daysUntilExpiry > 0): the certificate is reported valid iff e  *)
(* is strictly later than now, and one that expired any time ago, be it    *)
(* less than a day, is invalid and yields the danger finding.              *)
(***************************************************************************)
C24_DaysUntilExpiryIsCeiling ==
    (probe.fn = "fetchRealDomainData" /\ probeOut # Null /\ RecordsReturned(probe.lookup)) =>
        LET e == LatestNotAfter(probe.lookup.items)
            ssl == probeOut[1].ssl
            days == ssl[1].daysUntilExpiry[1]
        IN  /\ ssl # Null
            /\ ssl[1].daysUntilExpiry # Null
            /\ (days - 1) * DAY < e - probe.now
            /\ e - probe.now <= days * DAY
            /\ ssl[1].valid <=> (days > 0)
            /\ ssl[1].valid <=> (e > probe.now)
            /\ e <= probe.now =>
                  /\ ~ssl[1].valid
                  /\ certificateCheck(ssl).finding.status = "danger"
                  /\ certificateCheck(ssl).risk = 40

\* A certificate that expired half a day ago: 0 days, invalid.
C24_Witness ==
    /\ probe.fn = "fetchRealDomainData"
    /\ probeOut # Null
    /\ RecordsReturned(probe.lookup)
    /\ LatestNotAfter(probe.lookup.items) = probe.now - (DAY \div 2)
    /\ probeOut[1].ssl[1].daysUntilExpiry = Some(0)
    /\ ~probeOut[1].ssl[1].valid

(***************************************************************************)
(* C25: at most one analysis run is in flight at any time: while           *)
(* isAnalyzing is true the analyze trigger and the URL input are disabled, *)
(* so that no second run starts before the first has finished, and each    *)
(* user action stores at most one report.                                  *)
(***************************************************************************)
C25_OneRunInFlight ==
    [][ /\ isAnalyzing <=> (pc # "idle")
        /\ isAnalyzing =>
              /\ runs' = runs
              /\ url' = url
              /\ requests' = requests \/ (pc = "wait1" /\ Len(requests') = 1)
              /\ pc' # "wait1"
        /\ runs' # runs => (~isAnalyzing /\ isAnalyzing' /\ runs' = runs + 1)
        /\ analysisResult' # analysisResult =>
              (isAnalyzing /\ ~isAnalyzing' /\ pc = "wait2") ]_vars

\* The second run is in flight, the first one has finished and stored its
\* report.
C25_Witness ==
    /\ isAnalyzing
    /\ runs = 2
    /\ pc = "fetch"
    /\ Len(requests) = 1
    /\ analysisResult # Null

(***************************************************************************)
(* C26: the 'Analysis Complete' notification is emitted at the end of a    *)
(* run only if that run stored a report; a run that ended with the         *)
(* 'Analysis Failed' outcome never emits 'Analysis Complete' as well.      *)
(***************************************************************************)
C26_CompleteOnlyWithReport ==
    Toasted("Analysis Complete") =>
        /\ ~Toasted("Analysis Failed")
        /\ analysisResult # Null

(***************************************************************************)
(* C27: every accepted run (isAnalyzing set to true) eventually returns to *)
(* idle (isAnalyzing false), whether it succeeds or throws, provided the   *)
(* lookup eventually resolves or rejects; the engine has no timeout of its *)
(* own, so that the analyzer stays in the analyzing state for as long as   *)
(* the lookup has not settled.                                             *)
(***************************************************************************)
\* The lookup of the run is in flight.
LookupPending == pc = "fetch"

C27_AcceptedRunReturnsToIdle ==
    /\ [](LookupPending => isAnalyzing)
    /\ (LookupPending ~> ~LookupPending) => (isAnalyzing ~> ~isAnalyzing)

\* The second run threw after its lookup had settled, and the analyzer is
\* idle again.
C27_Witness ==
    /\ runs = 2
    /\ lookupOutcome = "record"
    /\ Toasted("Analysis Failed")
    /\ ~isAnalyzing
    /\ pc = "idle"

(***************************************************************************)
(* C28: a request that is rejected (empty or unparseable input) and a run  *)
(* that fails leave the stored analysisResult exactly as it was: the       *)
(* report of the previous successful run, if any, stays in place and is    *)
(* what the view shows; only a run that succeeds replaces it.              *)
(***************************************************************************)
\* The report the results section renders, lines 652-662
ReportShown(result, analyzing) == IF result # Null /\ ~analyzing THEN result ELSE Null

C28_OnlySuccessReplacesReport ==
    [][ /\ (~ToastedIn(toasts, "Analysis Failed") /\ ToastedIn(toasts', "Analysis Failed")) =>
              /\ analysisResult' = analysisResult
              /\ ReportShown(analysisResult', isAnalyzing') = analysisResult
        /\ (toasts' # toasts /\ toasts' \in {<<"Error">>, <<"Invalid URL">>}) =>
              /\ analysisResult' = analysisResult
              /\ ReportShown(analysisResult', isAnalyzing') = analysisResult
        /\ analysisResult' # analysisResult =>
              /\ pc = "wait2"
              /\ pc' = "idle"
              /\ analysisResult' # Null
              /\ analysisResult'[1].url = normalizedUrl
              /\ toasts' = Append(toasts, "Analysis Complete")
              /\ ~ToastedIn(toasts', "Analysis Failed") ]_vars

\* The second run has failed and the report of the first is still stored.
C28_Witness ==
    /\ runs = 2
    /\ Toasted("Analysis Failed")
    /\ analysisResult # Null
    /\ ReportShown(analysisResult, isAnalyzing) = analysisResult
    /\ pc = "idle"

(***************************************************************************)
(* C29: in every report the finding 'Could not verify SSL certificate'     *)
(* (warning, 15) stands next to a danger protocol finding: for an https    *)
(* URL the certificate signal is never the unknown one, and for a          *)
(* non-https URL without a usable record the total is at least 45, so that *)
(* the status is never safe.                                               *)
(***************************************************************************)
\* The certificate finding of a result is the one of the unknown signal.
CertificateUnverified(vulnerabilities) ==
    vulnerabilities[1] = Finding("SSL Certificate", "warning",
                                 "Could not verify SSL certificate")

C29_UnverifiedOnlyWithInsecureProtocol ==
    /\ (realDomainData # Null /\ startsWith(normalizedUrl, "https://")) =>
            realDomainData[1].ssl # Null
    /\ securityResult # Null =>
            /\ CertificateUnverified(securityResult[1].vulnerabilities)
                    <=> securityResult[1].domainData.ssl = Null
            /\ CertificateUnverified(securityResult[1].vulnerabilities) =>
                    /\ ~startsWith(normalizedUrl, "https://")
                    /\ securityResult[1].totalRisk >= 45
    /\ analysisResult # Null =>
            (CertificateUnverified(analysisResult[1].vulnerabilities) =>
                /\ ~startsWith(analysisResult[1].url, "https://")
                /\ analysisResult[1].vulnerabilities[2].type = "HTTPS Protocol"
                /\ analysisResult[1].vulnerabilities[2].status = "danger"
                /\ analysisResult[1].riskScore >= 45
                /\ analysisResult[1].status # "safe"
                /\ analysisResult[1].details.sslExpiry = "SSL status unknown")

\* The report of a plain-http URL whose lookup gave no usable record.
C29_Witness ==
    /\ analysisResult # Null
    /\ CertificateUnverified(analysisResult[1].vulnerabilities)
    /\ analysisResult[1].url = "http://google.com"
    /\ analysisResult[1].status = "warning"

(***************************************************************************)
(* C30: the URL-structure subtotal is 0, 10, 20, 30 or 40; whenever the    *)
(* dotted-quad rule fires the digit rule fires too (a match needs at least *)
(* 4 digits), so that a hostname matching the IP pattern has urlRisk >= 30 *)
(* and a danger finding; a subtotal of 20 arises only from the hyphen rule *)
(* and the digit rule together.                                            *)
(***************************************************************************)
C30_UrlRiskValues ==
    (probe.fn = "performSecurityChecks" /\ probeOut # Null) =>
        LET hostname == ParseURL(probe.url).hostname
            v == probeOut[1].vulnerabilities
            others == PointsOf(TheFinding(v, "SSL Certificate"))
                      + PointsOf(TheFinding(v, "HTTPS Protocol"))
                      + PointsOf(TheFinding(v, "Domain Reputation"))
            structure == TheFinding(v, "URL Structure")
            digitRule == CountIn(hostname, Digit) > 3
            hyphenRule == CountIn(hostname, {"-"}) > 3
        IN  \E urlRisk \in {0, 10, 20, 30, 40} :
                /\ probeOut[1].totalRisk = Min(100, others + urlRisk)
                /\ structure.status = (IF urlRisk = 0 THEN "secure"
                                       ELSE IF urlRisk = 10 THEN "warning"
                                       ELSE "danger")
                /\ matchesIpPattern(hostname) =>
                        /\ CountIn(hostname, Digit) >= 4
                        /\ digitRule
                        /\ urlRisk >= 30
                        /\ structure.status = "danger"
                /\ urlRisk = 20 =>
                        /\ ~matchesIpPattern(hostname)
                        /\ hyphenRule
                        /\ digitRule
                /\ urlRisk = 30 <=> (matchesIpPattern(hostname) /\ ~hyphenRule)
                /\ urlRisk = 40 <=> (matchesIpPattern(hostname) /\ hyphenRule)

\* The checks applied to an address of four digits, the fewest a
\* dotted-quad match can have, with nothing else adding to the total.
C30_Witness ==
    /\ probe.fn = "performSecurityChecks"
    /\ probeOut # Null
    /\ probe.url = "http://1.2.3.4"
    /\ probe.data.ssl = Null
    /\ probe.data.reputation = "Excellent"
    /\ probeOut[1].totalRisk = 75
    /\ TheFinding(probeOut[1].vulnerabilities, "URL Structure").status = "danger"

====
